---- MODULE Spec2Model ----
(***************************************************************************)
(* Settings / Model schema engine of cslib (src/cslib/settings.py).        *)
(*                                                                         *)
(* Python strings that are used as keys are sequences of one-character     *)
(* tokens, so that '.'-splitting and the string concatenation done by      *)
(* TemporaryEntry are computed rather than assumed.  Python objects are    *)
(* records tagged by "kind".  A mapping (dict, Settings, Model) carries    *)
(* "items", its ordered sequence of <<key, value>> pairs.                  *)
(***************************************************************************)
EXTENDS Integers, Sequences, FiniteSets, TLC

VARIABLES
    s,      \* the Settings object the program works on
    calls,  \* how many times a default function has been invoked
    m,      \* a Model object that changes: the one under construction, or
            \* the one that s and s2 are both bound to
    cs,     \* the Settings handed to check_settings
    chk,    \* the outcome of the last check_settings call
    s2,     \* a second Settings, bound to the same Model object as s
    last,   \* the last operation: its arguments, outcome and return value
    nops    \* how many operations have been applied

vars == <<s, calls, m, cs, chk, s2, last, nops>>

-----------------------------------------------------------------------------
(* Bounds                                                                  *)

\* number of operations applied to an object after its construction
MaxOps == 3
\* number of items of a Settings handed to check_settings
MaxLen == 2

-----------------------------------------------------------------------------
(* Python values                                                           *)

Dot == "."

NoneV == [kind |-> "None"]
IntV(n) == [kind |-> "int", val |-> n]
StrV == [kind |-> "str"]
ListV == [kind |-> "list"]
BoolV(b) == [kind |-> "bool", val |-> b]
\* a callable used as a Type default; "name" selects its body in CallDefault
FnV(name) == [kind |-> "function", name |-> name]
\* a raw mapping that is not a Settings
DictV(items) == [kind |-> "dict", items |-> items]

\* Predicate objects: "check" names the wrapped function f
PredV(name) == [kind |-> "Predicate", name |-> name]

\* identity, the default generator and parser of a Type
identity == FnV("identity")

\* Type(description, default, check, obligatory, generator, parser)
TypeGP(default, check, obligatory, generator, parser) ==
    [kind |-> "Type", default |-> default, check |-> check,
     obligatory |-> obligatory, generator |-> generator, parser |-> parser]

\* Type(description, default, check, obligatory)
Type(default, check, obligatory) ==
    TypeGP(default, check, obligatory, identity, identity)

\* conforms(m, name) and each_value_conforms(m, name): the Predicate built
\* for the Model named mname
ConformsV(mname) ==
    [kind |-> "Predicate", name |-> "conforms", model |-> mname]
EachValueConformsV(mname) ==
    [kind |-> "Predicate", name |-> "each_value_conforms", model |-> mname]

\* ModelType(m, name, description) for the Model m named mname: a Type
\* whose check is conforms(m, name),
\* whose parser is parse_to_model(m, d) and whose generator is
\* generate_settings(d)
ModelType(mname, obligatory) ==
    [kind |-> "Type", default |-> NoneV, check |-> ConformsV(mname),
     obligatory |-> obligatory,
     generator |-> [kind |-> "function", name |-> "generate_settings"],
     parser |-> [kind |-> "function", name |-> "parse_to_model",
                 model |-> mname],
     model |-> mname]

TemporaryEntry(owner, key) ==
    [kind |-> "TemporaryEntry", owner |-> owner, key |-> key]

\* a Settings object; "model" is the _model attribute: "None" or the name of
\* a Model of the schema table
SettingsV(items, model) ==
    [kind |-> "Settings", items |-> items, model |-> model]

\* a Model object (subclass of Settings, its _model is always None)
ModelV(items) == [kind |-> "Model", items |-> items, model |-> "None"]

isinstance_Settings(v) == v.kind \in {"Settings", "Model"}
isinstance_dict(v) == v.kind \in {"dict", "Settings", "Model"}
isinstance_Model(v) == v.kind = "Model"
isinstance_Type(v) == v.kind = "Type"
callable(v) == v.kind \in {"function", "Predicate"}

-----------------------------------------------------------------------------
(* Ordered mappings                                                        *)

\* the element of a one-element set: The({e(r) : r \in {x}}) is e(r) where
\* r is the value of x
The(S) == CHOOSE y \in S : TRUE

Has(items, k) == \E i \in 1..Len(items) : items[i][1] = k

Lookup(items, k) == items[CHOOSE i \in 1..Len(items) : items[i][1] = k][2]

\* OrderedDict.__setitem__: an existing key keeps its position
Put(items, k, v) ==
    IF Has(items, k)
    THEN [i \in 1..Len(items) |->
             IF items[i][1] = k THEN <<k, v>> ELSE items[i]]
    ELSE Append(items, <<k, v>>)

KeysOf(items) == [i \in 1..Len(items) |-> items[i][1]]

\* str.split('.')
RECURSIVE Split(_)
Split(k) ==
    IF k = <<>> THEN << <<>> >>
    ELSE The({ IF Head(k) = Dot THEN << <<>> >> \o rest
               ELSE << <<Head(k)>> \o Head(rest) >> \o Tail(rest)
               : rest \in {Split(Tail(k))} })

\* a + '.' + b
DotJoin(a, b) == a \o <<Dot>> \o b

-----------------------------------------------------------------------------
(* Results of a call: "st" is "ok" or the name of the exception raised,    *)
(* "obj" the receiver after the call, "val" the value returned, "calls"    *)
(* the number of default functions invoked during the call                 *)

Done(obj) == [st |-> "ok", obj |-> obj]
Raise(exc, obj) == [st |-> exc, obj |-> obj]

Ret(val, obj, n) == [st |-> "ok", val |-> val, obj |-> obj, calls |-> n]
Exc(exc, obj, n) == [st |-> exc, val |-> NoneV, obj |-> obj, calls |-> n]

-----------------------------------------------------------------------------
(* Settings.__setitem__, Settings.__init__, Model.__setitem__,             *)
(* Model.__init__                                                          *)

RECURSIVE Settings__setitem__(_, _, _)
RECURSIVE Model__setitem__(_, _, _)
RECURSIVE init_items(_, _)
RECURSIVE set_path(_, _, _)

\* self[k] = v, dispatched on the class of self
setitem(self, k, v) ==
    IF isinstance_Model(self) THEN Model__setitem__(self, k, v)
    ELSE Settings__setitem__(self, k, v)

\* the loop "for k, v in ...: self[k] = v" of the constructors
init_items(self, items) ==
    IF items = <<>> THEN Done(self)
    ELSE The({ IF r.st # "ok" THEN r ELSE init_items(r.obj, Tail(items))
               : r \in {setitem(self, Head(items)[1], Head(items)[2])} })

\* Settings(_data, _model=model) and Settings(**kwargs)
Settings__init__(data, model) ==
    The({ IF r.st # "ok" THEN r ELSE Done([r.obj EXCEPT !.model = model])
          : r \in {init_items(SettingsV(<<>>, "None"), data)} })

\* Model(_data, **kwargs): the keyword arguments first, then the pairs
Model__init__(data, kwargs) ==
    The({ IF r.st # "ok" THEN r ELSE init_items(r.obj, data)
          : r \in {init_items(ModelV(<<>>), kwargs)} })

\* get_or_create that replaces whatever is not a Settings by a new Settings
get_or_createOverwrite(d, k) ==
    IF ~isinstance_Settings(d)
    THEN [st |-> "TypeError", obj |-> d, val |-> NoneV]
    ELSE IF Has(d.items, k) /\ isinstance_Settings(Lookup(d.items, k))
    THEN [st |-> "ok", obj |-> d, val |-> Lookup(d.items, k)]
    ELSE [st |-> "ok", val |-> SettingsV(<<>>, "None"),
          obj |-> [d EXCEPT !.items =
                      Put(d.items, k, SettingsV(<<>>, "None"))]]

\* the local function get_or_create of Settings.__setitem__; "val" is the
\* object returned, "obj" is d after the call
get_or_create(d, k) ==
    IF ~isinstance_Settings(d)
    THEN [st |-> "TypeError", obj |-> d, val |-> NoneV]
    ELSE IF Has(d.items, k)
    THEN [st |-> "ok", obj |-> d, val |-> Lookup(d.items, k)]
    ELSE [st |-> "ok", val |-> SettingsV(<<>>, "None"),
          obj |-> [d EXCEPT !.items =
                      Put(d.items, k, SettingsV(<<>>, "None"))]]

\* reduce(get_or_create, keys[:-1], d) followed by
\* OrderedDict.__setitem__(lowest_obj, keys[-1], v); nested objects are
\* mutated in place, which is the write-back into d here
set_path(d, keys, v) ==
    IF Len(keys) = 1
    THEN IF isinstance_Settings(d)
         THEN Done([d EXCEPT !.items = Put(d.items, keys[1], v)])
         ELSE Raise("TypeError", d)
    ELSE The({
           IF g.st # "ok" THEN Raise(g.st, d)
           ELSE The({ [st |-> r.st,
                       obj |-> [g.obj EXCEPT !.items =
                                   Put(g.obj.items, Head(keys), r.obj)]]
                      : r \in {set_path(g.val, Tail(keys), v)} })
           : g \in {get_or_create(d, Head(keys))} })

\* "if isinstance(v, dict) and not isinstance(v, Settings): v = Settings(v)"
wrap(v) ==
    IF isinstance_dict(v) /\ ~isinstance_Settings(v)
    THEN Settings__init__(v.items, "None")
    ELSE Done(v)

\* __setitem__ without "keys = k.split('.')": the key is used whole
Settings__setitem__NoSplit(self, k, v) ==
    The({ IF w.st # "ok" THEN Raise(w.st, self)
          ELSE set_path(self, <<k>>, w.obj)
          : w \in {wrap(v)} })

Settings__setitem__(self, k, v) ==
    The({ IF w.st # "ok" THEN Raise(w.st, self)
          ELSE set_path(self, Split(k), w.obj)
          : w \in {wrap(v)} })

\* the value Model.__setitem__ hands to Settings.__setitem__: v itself when
\* it is a Model or a Type, Model(**v) when it is another mapping
model_value(v) ==
    IF isinstance_Model(v) THEN Done(v)
    ELSE IF isinstance_Type(v) THEN Done(v)
    ELSE IF isinstance_dict(v) THEN Model__init__(<<>>, v.items)
    ELSE Raise("TypeError", v)

Model__setitem__(self, k, v) ==
    The({ IF w.st # "ok" THEN Raise("TypeError", self)
          ELSE Settings__setitem__(self, k, w.obj)
          : w \in {model_value(v)} })

-----------------------------------------------------------------------------
(* Schemas a Settings can be bound to                                      *)

ka == <<"a">>
kb == <<"b">>
kc == <<"c">>
kn == <<"n">>
Keys == {ka, kb, kc, kn}

ModelNames == {"M0", "M1"}

\* M0 = Model()
M0 == ModelV(<<>>)

\* M1 = Model(n=Type("n", default=lambda s: s['b'] + 1),
\*            b=Type("b", check=is_integer),
\*            a=Type("a", default=7, check=is_integer))
M1 ==
    ModelV(<< <<kn, Type(FnV("inc_b"), NoneV, FALSE)>>,
              <<kb, Type(NoneV, PredV("is_integer"), FALSE)>>,
              <<ka, Type(IntV(7), PredV("is_integer"), FALSE)>> >>)

\* M2 = Model(b=Type("b", check=is_integer, parser=lambda x: x + 1,
\*                   generator=lambda x: x - 1),
\*            a=Type("a", check=is_integer))
M2 ==
    ModelV(<< <<kb, TypeGP(NoneV, PredV("is_integer"), FALSE,
                           FnV("dec"), FnV("inc"))>>,
              <<ka, Type(NoneV, PredV("is_integer"), FALSE)>> >>)

\* M3 = Model(c=ModelType(M2, "c", "section"),
\*            a=Type("a", check=is_integer))
M3 ==
    ModelV(<< <<kc, ModelType("M2", FALSE)>>,
              <<ka, Type(NoneV, PredV("is_integer"), FALSE)>> >>)

\* MN = Model(c=M2, a=Type("a", default=7, check=is_integer)): the section
\* c is declared by the nested Model itself
MN ==
    ModelV(<< <<kc, M2>>,
              <<ka, Type(IntV(7), PredV("is_integer"), FALSE)>> >>)

\* MO = Model(a=Type("a", default=7, check=is_integer, obligatory=True),
\*            n=Type("n", default=lambda s: s['b'] + 1, obligatory=True),
\*            c=Type("c", obligatory=True))
MO ==
    ModelV(<< <<ka, Type(IntV(7), PredV("is_integer"), TRUE)>>,
              <<kn, Type(FnV("inc_b"), NoneV, TRUE)>>,
              <<kc, Type(NoneV, NoneV, TRUE)>> >>)

ModelOf(name) ==
    CASE name = "M1" -> M1
      [] name = "M2" -> M2
      [] name = "M3" -> M3
      [] name = "MN" -> MN
      [] name = "MO" -> MO
      [] name = "MS" -> m
      [] OTHER -> M0

\* bool(x)
py_bool(x) ==
    CASE x.kind = "TemporaryEntry" -> FALSE
      [] x.kind = "None" -> FALSE
      [] x.kind = "int" -> x.val # 0
      [] x.kind = "bool" -> x.val
      [] isinstance_dict(x) -> x.items # <<>>
      [] OTHER -> TRUE

\* k in x, for the objects that define it
py_contains(x, k) ==
    CASE x.kind = "TemporaryEntry" -> FALSE
      [] isinstance_dict(x) -> Has(x.items, k)
      [] OTHER -> FALSE

\* "self._model and k in self._model"
model_has(self, k) ==
    /\ self.model # "None"
    /\ py_bool(ModelOf(self.model))
    /\ Has(ModelOf(self.model).items, k)

\* self._model[k] when model_has(self, k)
model_entry(self, k) == Lookup(ModelOf(self.model).items, k)

-----------------------------------------------------------------------------
(* Settings.__getitem__, __missing__, __getattr__, __setattr__ and         *)
(* TemporaryEntry                                                          *)

RECURSIVE Settings__getitem__(_, _)
RECURSIVE Settings__missing__(_, _)
RECURSIVE dict__getitem__(_, _)
RECURSIVE get_path(_, _)
RECURSIVE CallDefault(_, _)

\* __getattr__ that creates the missing entry instead of a TemporaryEntry
Settings__getattr__Create(self, k, me) ==
    IF ~Has(self.items, k) /\ model_has(self, k)
    THEN Settings__missing__(self, k)
    ELSE IF ~Has(self.items, k)
    THEN The({ Ret(g.val, g.obj, 0) : g \in {get_or_create(self, k)} })
    ELSE Settings__getitem__(self, k)

\* "me" stands for self in the TemporaryEntry that is returned
Settings__getattr__(self, k, me) ==
    IF ~Has(self.items, k) /\ model_has(self, k)
    THEN Settings__missing__(self, k)
    ELSE IF ~Has(self.items, k)
    THEN Ret(TemporaryEntry(me, k), self, 0)
    ELSE Settings__getitem__(self, k)

\* who a TemporaryEntry writes to (its _d): the Settings whose attribute
\* read made it, or an entry of a schema
SelfRef == [kind |-> "ref"]

\* entry.name for an entry of a Model: the attribute of a Type; on a nested
\* Model, which has no _model, Settings.__getattr__ returns the item of that
\* name or a TemporaryEntry
attr_of(entry, name) ==
    IF isinstance_Type(entry) THEN entry[name]
    ELSE IF Has(entry.items, <<name>>) THEN Lookup(entry.items, <<name>>)
    ELSE TemporaryEntry(entry, <<name>>)

\* self._model[k].default
default_of(entry) == attr_of(entry, "default")

\* default(self) for the callables the schemas use
\*   inc_b = lambda s: s['b'] + 1
CallDefault(fn, self) ==
    The({ IF r.st # "ok" THEN Exc(r.st, r.obj, r.calls + 1)
          ELSE IF r.val.kind # "int" THEN Exc("TypeError", r.obj, r.calls + 1)
          ELSE Ret(IntV(r.val.val + 1), r.obj, r.calls + 1)
          : r \in {Settings__getitem__(self, kb)} })

\* "if callable(default): value = default(self) else: value = default"
value_of(default, self) ==
    IF callable(default) THEN CallDefault(default, self)
    ELSE Ret(default, self, 0)

\* "self[k] = value; return value" on the outcome c of value_of
store_value(c, k) ==
    IF c.st # "ok" THEN c
    ELSE The({ IF w.st # "ok" THEN Exc(w.st, w.obj, c.calls)
               ELSE Ret(c.val, w.obj, c.calls)
               : w \in {Settings__setitem__(c.obj, k, c.val)} })

\* __missing__ without the test "if default is None: raise KeyError"
Settings__missing__NoneDefault(self, k) ==
    IF model_has(self, k)
    THEN The({ store_value(c, k)
               : c \in {value_of(default_of(model_entry(self, k)), self)} })
    ELSE Exc("KeyError", self, 0)

\* __missing__ without the line "self[k] = value"
Settings__missing__NoStore(self, k) ==
    IF model_has(self, k)
    THEN The({ IF default = NoneV THEN Exc("KeyError", self, 0)
               ELSE value_of(default, self)
               : default \in {default_of(model_entry(self, k))} })
    ELSE Exc("KeyError", self, 0)

Settings__missing__(self, k) ==
    IF model_has(self, k)
    THEN The({ IF default = NoneV THEN Exc("KeyError", self, 0)
               ELSE The({ store_value(c, k)
                          : c \in {value_of(default, self)} })
               : default \in {default_of(model_entry(self, k))} })
    ELSE Exc("KeyError", self, 0)

\* a lookup that reports every failure as KeyError
dict__getitem__KeyError(obj, key) ==
    IF ~isinstance_dict(obj) THEN Exc("KeyError", obj, 0)
    ELSE IF Has(obj.items, key) THEN Ret(Lookup(obj.items, key), obj, 0)
    ELSE IF isinstance_Settings(obj) THEN Settings__missing__(obj, key)
    ELSE Exc("KeyError", obj, 0)

\* OrderedDict.__getitem__(obj, key): dict subscription, which calls
\* __missing__ on the subclasses that define it
dict__getitem__(obj, key) ==
    IF ~isinstance_dict(obj) THEN Exc("TypeError", obj, 0)
    ELSE IF Has(obj.items, key) THEN Ret(Lookup(obj.items, key), obj, 0)
    ELSE IF isinstance_Settings(obj) THEN Settings__missing__(obj, key)
    ELSE Exc("KeyError", obj, 0)

\* x after the object it holds under k, which was "val", has become "sub":
\* nested objects are mutated in place
write_back(x, k, val, sub) ==
    IF /\ isinstance_dict(x)
       /\ Has(x.items, k)
       /\ Lookup(x.items, k) = val
    THEN [x EXCEPT !.items = Put(x.items, k, sub)]
    ELSE x

\* reduce(OrderedDict.__getitem__, keys, obj)
get_path(obj, keys) ==
    The({ IF Len(keys) = 1 \/ r.st # "ok" THEN r
          ELSE The({ [st |-> q.st, val |-> q.val,
                      calls |-> r.calls + q.calls,
                      obj |-> write_back(r.obj, Head(keys), r.val, q.obj)]
                     : q \in {get_path(r.val, Tail(keys))} })
          : r \in {dict__getitem__(obj, Head(keys))} })

Settings__getitem__(self, k) == get_path(self, Split(k))

Settings__setattr__(self, k, v) ==
    IF k[1] = "_" THEN Done(self)
    ELSE The({ IF w.st # "ok" THEN Raise(w.st, self)
               ELSE setitem(self, k, w.obj)
               : w \in {wrap(v)} })

TemporaryEntry__getattr__(self, k) ==
    TemporaryEntry(self.owner, DotJoin(self.key, k))

\* d is the object self._d refers to
TemporaryEntry__setattr__(self, d, k, v) ==
    IF k[1] # "_" THEN setitem(d, DotJoin(self.key, k), v)
    ELSE Done(d)

-----------------------------------------------------------------------------
(* Attribute expressions  x.k1.k2...kn  and  x.k1.k2...kn = v              *)

RECURSIVE getattr_chain(_, _)
RECURSIVE setattr_chain(_, _, _)
RECURSIVE te_chain(_, _)

\* getattr(x, k)
getattr(x, k) ==
    CASE isinstance_Settings(x) -> Settings__getattr__(x, k, SelfRef)
      [] x.kind = "TemporaryEntry" ->
            Ret(TemporaryEntry__getattr__(x, k), x, 0)
      [] OTHER -> Exc("AttributeError", x, 0)

\* setattr(x, k, v) on an object that is not a TemporaryEntry
setattr(x, k, v) ==
    CASE isinstance_Settings(x) -> Settings__setattr__(x, k, v)
      [] isinstance_Type(x) -> Done(x)
      [] OTHER -> Raise("AttributeError", x)

\* te.k1.k2...kn
te_chain(te, names) ==
    IF names = <<>> THEN te
    ELSE te_chain(TemporaryEntry__getattr__(te, Head(names)), Tail(names))

\* the value of x.k1...kn, looked up left to right
getattr_chain(x, names) ==
    The({ IF Len(names) = 1 \/ r.st # "ok" THEN r
          ELSE The({ [st |-> q.st, val |-> q.val,
                      calls |-> r.calls + q.calls,
                      obj |-> write_back(r.obj, Head(names), r.val, q.obj)]
                     : q \in {getattr_chain(r.val, Tail(names))} })
          : r \in {getattr(x, Head(names))} })

\* the statement x.k1...kn = v
setattr_chain(x, names, v) ==
    IF Len(names) = 1
    THEN The({ [st |-> w.st, obj |-> w.obj, calls |-> 0]
               : w \in {setattr(x, names[1], v)} })
    ELSE The({
           IF r.st # "ok" THEN [st |-> r.st, obj |-> r.obj, calls |-> r.calls]
           ELSE IF r.val.kind = "TemporaryEntry" /\ r.val.owner = SelfRef
           THEN The({ [st |-> w.st, obj |-> w.obj, calls |-> r.calls]
                      : w \in {TemporaryEntry__setattr__(
                                  te_chain(r.val,
                                           SubSeq(names, 2, Len(names) - 1)),
                                  r.obj, names[Len(names)], v)} })
           ELSE The({ [st |-> q.st, calls |-> r.calls + q.calls,
                       obj |-> write_back(r.obj, Head(names), r.val, q.obj)]
                      : q \in {setattr_chain(r.val, Tail(names), v)} })
           : r \in {getattr(x, Head(names))} })

-----------------------------------------------------------------------------
(* check_settings                                                          *)

RECURSIVE check_settings(_, _)
RECURSIVE check_items(_, _, _)
RECURSIVE Predicate__call__(_, _)
RECURSIVE each_value_loop(_, _)

\* is_settings(obj)
is_settings(obj) == isinstance_Settings(obj)

\* _conforms that accepts every Settings without check_settings
conformsAnySettings(mname, v) ==
    [st |-> "ok", val |-> BoolV(is_settings(v))]

\* the function _conforms that conforms(m) wraps
\*   "if not is_settings(s): return False; return check_settings(s, m)"
\* an exception of check_settings leaves _conforms with it
conforms(mname, v) ==
    IF ~is_settings(v) THEN [st |-> "ok", val |-> BoolV(FALSE)]
    ELSE The({ [st |-> r.st, val |-> r.ret]
               : r \in {check_settings(v, ModelOf(mname))} })

\* "for v in s.values(): if not check_settings(v, m): return False
\*  else: return True" over the values from the first of items on
each_value_loop(mname, items) ==
    IF items = <<>> THEN [st |-> "ok", val |-> BoolV(TRUE)]
    ELSE The({ IF r.st # "ok" THEN [st |-> r.st, val |-> NoneV]
               ELSE IF ~py_bool(r.ret)
               THEN [st |-> "ok", val |-> BoolV(FALSE)]
               ELSE each_value_loop(mname, Tail(items))
               : r \in {check_settings(Head(items)[2], ModelOf(mname))} })

\* the function _each_value_conforms that each_value_conforms(m) wraps
each_value_conforms(mname, v) ==
    IF ~is_settings(v) THEN [st |-> "ok", val |-> BoolV(FALSE)]
    ELSE each_value_loop(mname, v.items)

\* Predicate.__call__(p, v) = p.f(v), for the predicates the schemas use
\*   is_integer = isinstance(v, int), which holds of a bool too
Predicate__call__(p, v) ==
    CASE p.name = "conforms" -> conforms(p.model, v)
      [] p.name = "each_value_conforms" -> each_value_conforms(p.model, v)
      [] OTHER -> [st |-> "ok", val |-> BoolV(v.kind \in {"int", "bool"})]

\* d[k].check
check_of(entry) == attr_of(entry, "check")

\* the outcome of check_settings: "examined" counts the items whose model
\* entry was looked up, "key" and "val" are what the exception names
Checked(n) ==
    [st |-> "ok", ret |-> BoolV(TRUE), key |-> <<>>, val |-> NoneV,
     msg |-> "", examined |-> n]
CheckFailed(exc, msg, k, v, n) ==
    [st |-> exc, ret |-> NoneV, key |-> k, val |-> v, msg |-> msg,
     examined |-> n]

\* "if not d[k].check(v): raise TypeError(...)" for one item: e is the
\* outcome of d[k]; the result is Checked when the loop goes on
check_item(e, k, v, n) ==
    IF e.st # "ok"
    THEN CheckFailed(e.st, "doesn't match any entry", k, NoneV, n + 1)
    ELSE IF check_of(e.val).kind # "Predicate"
    THEN CheckFailed("TypeError", "object is not callable", <<>>, NoneV, n + 1)
    ELSE The({ IF b.st # "ok" THEN CheckFailed(b.st, "", <<>>, NoneV, n + 1)
               ELSE IF ~py_bool(b.val)
               THEN CheckFailed("TypeError", "Type-check failed", k, v, n + 1)
               ELSE Checked(n + 1)
               : b \in {Predicate__call__(check_of(e.val), v)} })

\* the loop of check_settings over the items from the n-th on
check_items(items, d, n) ==
    IF items = <<>> THEN Checked(n)
    ELSE The({ IF here.st # "ok" THEN here
               ELSE check_items(Tail(items), d, n + 1)
               : here \in {check_item(Settings__getitem__(d, Head(items)[1]),
                                      Head(items)[1], Head(items)[2], n)} })

\* check_settings that goes on after a failure and reports the last one
RECURSIVE check_itemsAll(_, _, _)
check_itemsAll(items, d, n) ==
    IF items = <<>> THEN Checked(n)
    ELSE The({ IF rest.st # "ok" \/ here.st = "ok" THEN rest
               ELSE [here EXCEPT !.examined = rest.examined]
               : here \in {check_item(Settings__getitem__(d, Head(items)[1]),
                                      Head(items)[1], Head(items)[2], n)},
                 rest \in {check_itemsAll(Tail(items), d, n + 1)} })

check_settingsAll(self, d) == check_itemsAll(self.items, d, 0)

\* "s.items()" is an AttributeError on a value that is no mapping
check_settings(self, d) ==
    IF ~isinstance_dict(self)
    THEN CheckFailed("AttributeError", "has no attribute 'items'",
                     <<>>, NoneV, 0)
    ELSE check_items(self.items, d, 0)

-----------------------------------------------------------------------------
(* parse_to_model and generate_settings                                    *)

RECURSIVE parse_to_model(_, _)
RECURSIVE parse_items(_, _, _)
RECURSIVE generate_settings(_)
RECURSIVE generate_items(_, _, _)
RECURSIVE call(_, _)

\* yaml.comments.CommentedMap(pairs): an ordered mapping
CommentedMap(items) == [kind |-> "CommentedMap", items |-> items]

\* str(v)
str(v) == [kind |-> "str", of |-> v]

\* f(v) for the parsers and generators the schemas use; calling what is not
\* callable is a TypeError
\*   identity, inc = lambda x: x + 1, dec = lambda x: x - 1,
\*   lambda d: parse_to_model(m, d), lambda d: generate_settings(d)
call(f, v) ==
    IF ~callable(f) THEN [st |-> "TypeError", val |-> NoneV]
    ELSE CASE f.name = "identity" -> [st |-> "ok", val |-> v]
           [] f.name = "inc" ->
                 IF v.kind = "int"
                 THEN [st |-> "ok", val |-> IntV(v.val + 1)]
                 ELSE [st |-> "TypeError", val |-> NoneV]
           [] f.name = "dec" ->
                 IF v.kind = "int"
                 THEN [st |-> "ok", val |-> IntV(v.val - 1)]
                 ELSE [st |-> "TypeError", val |-> NoneV]
           [] f.name = "parse_to_model" -> parse_to_model(f.model, v)
           [] f.name = "generate_settings" -> generate_settings(v)
           [] OTHER -> [st |-> "TypeError", val |-> NoneV]

\* "s[k] = <parsed>" on the outcome c of the parser
parse_store(c, self, k) ==
    IF c.st # "ok" THEN [st |-> c.st, val |-> self]
    ELSE The({ [st |-> w.st, val |-> w.obj]
               : w \in {Settings__setitem__(self, k, c.val)} })

\* the loop of parse_to_model that stores the values as they are, without
\* model[k].parser
parse_itemsNoParser(mname, self, items) ==
    IF items = <<>> THEN [st |-> "ok", val |-> self]
    ELSE IF ~Has(ModelOf(mname).items, Head(items)[1])
    THEN [st |-> "KeyError", val |-> NoneV]
    ELSE The({ IF r.st # "ok" THEN [st |-> r.st, val |-> NoneV]
               ELSE parse_items(mname, r.val, Tail(items))
               : r \in {parse_store([st |-> "ok", val |-> Head(items)[2]],
                                    self, Head(items)[1])} })

\* the loop of parse_to_model over the items of data, s being self
\*   "if k not in model: raise KeyError; s[k] = model[k].parser(v)"
parse_items(mname, self, items) ==
    IF items = <<>> THEN [st |-> "ok", val |-> self]
    ELSE IF ~Has(ModelOf(mname).items, Head(items)[1])
    THEN [st |-> "KeyError", val |-> NoneV]
    ELSE The({ IF r.st # "ok" THEN [st |-> r.st, val |-> NoneV]
               ELSE parse_items(mname, r.val, Tail(items))
               : r \in {parse_store(
                           call(attr_of(Lookup(ModelOf(mname).items,
                                               Head(items)[1]), "parser"),
                                Head(items)[2]),
                           self, Head(items)[1])} })

\* parse_to_model(model, data) for the Model named mname; "data.items()" is
\* an AttributeError on a value that is no mapping
parse_to_model(mname, data) ==
    IF ~isinstance_dict(data) THEN [st |-> "AttributeError", val |-> NoneV]
    ELSE parse_items(mname, SettingsV(<<>>, mname), data.items)

\* the pairs of generate_settings that hold the values as they are, without
\* model[k].generator
generate_itemsNoGenerator(self, items, out) ==
    IF items = <<>> THEN [st |-> "ok", val |-> CommentedMap(out)]
    ELSE IF self.model = "None" THEN [st |-> "TypeError", val |-> NoneV]
    ELSE The({ IF e.st # "ok" THEN [st |-> e.st, val |-> NoneV]
               ELSE generate_items(self, Tail(items),
                                   Append(out, Head(items)))
               : e \in {Settings__getitem__(ModelOf(self.model),
                                            Head(items)[1])} })

\* the pairs (k, settings._model[k].generator(v)) of generate_settings;
\* subscripting the _model None is a TypeError
generate_items(self, items, out) ==
    IF items = <<>> THEN [st |-> "ok", val |-> CommentedMap(out)]
    ELSE IF self.model = "None" THEN [st |-> "TypeError", val |-> NoneV]
    ELSE The({
           IF e.st # "ok" THEN [st |-> e.st, val |-> NoneV]
           ELSE The({ IF g.st # "ok" THEN [st |-> g.st, val |-> NoneV]
                      ELSE generate_items(self, Tail(items),
                              Append(out, <<Head(items)[1], g.val>>))
                      : g \in {call(attr_of(e.val, "generator"),
                                    Head(items)[2])} })
           : e \in {Settings__getitem__(ModelOf(self.model),
                                        Head(items)[1])} })

\* the pairs (k, str(v))
str_items(items) == [i \in 1..Len(items) |-> <<items[i][1], str(items[i][2])>>]

\* generate_settings(settings): every Settings has the attribute _model, a
\* raw mapping has not
generate_settings(settings) ==
    IF isinstance_Settings(settings)
    THEN generate_items(settings, settings.items, <<>>)
    ELSE IF isinstance_dict(settings)
    THEN [st |-> "ok", val |-> CommentedMap(str_items(settings.items))]
    ELSE [st |-> "AttributeError", val |-> NoneV]

-----------------------------------------------------------------------------
(* Inputs                                                                  *)

\* the values written: a number, a string, a list, a schema Type and the
\* raw mapping {'c': 1}
Values ==
    {IntV(1), StrV, ListV, Type(NoneV, NoneV, FALSE),
     DictV(<< <<kc, IntV(1)>> >>)}

\* the keys of item assignment
SetPaths == {ka, kb, DotJoin(ka, kb), DotJoin(DotJoin(ka, kb), kc)}

\* the keys of item get
GetPaths == SetPaths \cup {kn, kc}

\* the attribute names of an attribute read
GetChains == {<<ka>>, <<kb>>, <<kn>>, <<kc>>, <<ka, kb>>, <<ka, kb, kc>>}

\* the attribute names and values of an attribute assignment
SetChains == {<<ka>>, <<ka, kb>>, <<ka, kb, kc>>, <<kb, kc>>}
AttrValues == {IntV(1), DictV(<< <<kc, IntV(1)>> >>)}

\* the _model and _data a Settings is constructed with
Bindings == {"None"} \cup ModelNames
InitData == {<<>>, << <<kb, IntV(1)>> >>}

-----------------------------------------------------------------------------
(* The program: one Settings object s and the operations on it             *)

\* "inv" is the number of default-function invocations the operation made
Op(op, key, arg, st, ret, inv) ==
    [op |-> op, key |-> key, arg |-> arg, st |-> st, ret |-> ret,
     inv |-> inv]

NoOp == Op("init", <<>>, NoneV, "ok", NoneV, 0)

NoCheck == [model |-> "None", out |-> Checked(0)]

Init ==
    /\ \E b \in Bindings, d \in InitData : s = Settings__init__(d, b).obj
    /\ calls = 0
    /\ m = Model__init__(<<>>, <<>>).obj
    /\ cs = Settings__init__(<<>>, "None").obj
    /\ chk = NoCheck
    /\ s2 = SettingsV(<<>>, "None")
    /\ last = NoOp
    /\ nops = 0

\* s[p] = v
SetItem(p, v) ==
    \E r \in {Settings__setitem__(s, p, v)} :
    /\ nops < MaxOps
    /\ s' = r.obj
    /\ last' = Op("setitem", p, v, r.st, NoneV, 0)
    /\ nops' = nops + 1
    /\ UNCHANGED <<calls, m, cs, chk, s2>>

\* s[p]
GetItem(p) ==
    \E r \in {Settings__getitem__(s, p)} :
    /\ nops < MaxOps
    /\ s' = r.obj
    /\ calls' = calls + r.calls
    /\ last' = Op("getitem", p, NoneV, r.st, r.val, r.calls)
    /\ nops' = nops + 1
    /\ UNCHANGED <<m, cs, chk, s2>>

\* s.k1.k2...kn
GetAttr(names) ==
    \E r \in {getattr_chain(s, names)} :
    /\ nops < MaxOps
    /\ s' = r.obj
    /\ calls' = calls + r.calls
    /\ last' = Op("getattr", names, NoneV, r.st, r.val, r.calls)
    /\ nops' = nops + 1
    /\ UNCHANGED <<m, cs, chk, s2>>

\* s.k1.k2...kn = v
SetAttr(names, v) ==
    \E r \in {setattr_chain(s, names, v)} :
    /\ nops < MaxOps
    /\ s' = r.obj
    /\ calls' = calls + r.calls
    /\ last' = Op("setattr", names, v, r.st, NoneV, r.calls)
    /\ nops' = nops + 1
    /\ UNCHANGED <<m, cs, chk, s2>>

Next ==
    \/ \E p \in SetPaths, v \in Values : SetItem(p, v)
    \/ \E p \in GetPaths : GetItem(p)
    \/ \E names \in GetChains : GetAttr(names)
    \/ \E names \in SetChains, v \in AttrValues : SetAttr(names, v)

Spec == Init /\ [][Next]_vars

\* the same operations on a Settings bound to a Model with obligatory
\* entries, or to a Model with a nested Model entry

InitLazy ==
    /\ \E b \in {"MO", "MN"}, d \in InitData :
          s = Settings__init__(d, b).obj
    /\ calls = 0
    /\ m = ModelV(<<>>)
    /\ cs = SettingsV(<<>>, "None")
    /\ chk = NoCheck
    /\ s2 = SettingsV(<<>>, "None")
    /\ last = NoOp
    /\ nops = 0

SpecLazy == InitLazy /\ [][Next]_vars

-----------------------------------------------------------------------------
(* The program with two Settings s and s2 bound to one Model m.  A default *)
(* that __missing__ stores is the object the Type holds, not a copy: an    *)
(* item of s or s2 that is that very object is the marker Shared(k), and   *)
(* the object itself is m[k].default                                        *)

\* MS = Model(a=Type("a", default=Settings(b=1)),
\*            c=Type("c", default=7),
\*            n=Type("n", default={'b': 1}))
MS ==
    ModelV(<< <<ka, Type(SettingsV(<< <<kb, IntV(1)>> >>, "None"),
                         NoneV, FALSE)>>,
              <<kc, Type(IntV(7), NoneV, FALSE)>>,
              <<kn, Type(DictV(<< <<kb, IntV(1)>> >>), NoneV, FALSE)>> >>)

\* the item of a Settings that is the object m[k].default
Shared(k) == [kind |-> "shared", key |-> k]

\* self with the objects its items are
Deref(self) ==
    [self EXCEPT !.items =
        [i \in 1..Len(self.items) |->
            IF self.items[i][2].kind = "shared"
            THEN <<self.items[i][1],
                   Lookup(m.items, self.items[i][2].key).default>>
            ELSE self.items[i]]]

\* "self[k] = value" of __missing__ with value = default: what is stored is
\* the default object itself when it is a Settings, a new Settings when it
\* is a raw mapping, the value otherwise; old is self before the read and
\* new the outcome of the read
StoreDefaults(old, new) ==
    [old EXCEPT !.items =
        [i \in 1..Len(new.items) |->
            IF Has(old.items, new.items[i][1])
            THEN <<new.items[i][1], Lookup(old.items, new.items[i][1])>>
            ELSE IF isinstance_Settings(
                       default_of(model_entry(old, new.items[i][1])))
            THEN <<new.items[i][1], Shared(new.items[i][1])>>
            ELSE new.items[i]]]

\* the first key of the path p names the default object of the Model
ThroughShared(self, p) ==
    /\ Len(Split(p)) > 1
    /\ Has(self.items, Head(Split(p)))
    /\ Lookup(self.items, Head(Split(p))).kind = "shared"

\* m after the object m[k].default has become obj
WithDefault(k, obj) ==
    [m EXCEPT !.items = Put(m.items, k,
                            [Lookup(m.items, k) EXCEPT !.default = obj])]

InitShared ==
    /\ m = MS
    /\ s = SettingsV(<<>>, "MS")
    /\ s2 = SettingsV(<<>>, "MS")
    /\ calls = 0
    /\ cs = SettingsV(<<>>, "None")
    /\ chk = NoCheck
    /\ last = NoOp
    /\ nops = 0

\* s[p]
SharedGetItem(p) ==
    \E r \in {Settings__getitem__(Deref(s), p)} :
        /\ nops < MaxOps
        /\ s' = StoreDefaults(s, r.obj)
        /\ last' = Op("s.getitem", p, NoneV, r.st, r.val, r.calls)
        /\ nops' = nops + 1
        /\ UNCHANGED <<calls, m, cs, chk, s2>>

\* s2[p]
SharedGetItem2(p) ==
    \E r \in {Settings__getitem__(Deref(s2), p)} :
        /\ nops < MaxOps
        /\ s2' = StoreDefaults(s2, r.obj)
        /\ last' = Op("s2.getitem", p, NoneV, r.st, r.val, r.calls)
        /\ nops' = nops + 1
        /\ UNCHANGED <<calls, m, cs, chk, s>>

\* s[p] = v: a path through a default object writes into that object
SharedSetItem(p, v) ==
    /\ nops < MaxOps
    /\ IF ThroughShared(s, p)
       THEN \E r \in {Settings__setitem__(
                         Lookup(Deref(s).items, Head(Split(p))),
                         SubSeq(p, Len(Head(Split(p))) + 2, Len(p)), v)} :
               /\ m' = WithDefault(Head(Split(p)), r.obj)
               /\ s' = s
               /\ last' = Op("s.setitem", p, v, r.st, NoneV, 0)
       ELSE \E r \in {Settings__setitem__(s, p, v)} :
               /\ m' = m
               /\ s' = r.obj
               /\ last' = Op("s.setitem", p, v, r.st, NoneV, 0)
    /\ nops' = nops + 1
    /\ UNCHANGED <<calls, cs, chk, s2>>

NextShared ==
    \/ \E p \in {ka, kc, kn, DotJoin(ka, kb)} : SharedGetItem(p)
    \/ \E p \in {ka, kc, kn, DotJoin(ka, kb)} : SharedGetItem2(p)
    \/ \E p \in {ka, DotJoin(ka, kb), DotJoin(ka, kc)},
          v \in {IntV(1), DictV(<< <<kc, IntV(1)>> >>)} : SharedSetItem(p, v)

SpecShared == InitShared /\ [][NextShared]_vars

-----------------------------------------------------------------------------
(* The program that builds a Model m                                       *)

T0 == Type(NoneV, NoneV, FALSE)

\* what is inserted: a Type, an empty Model, the raw mappings {'c': Type}
\* and {'c': 1}, and a number
ModelValues ==
    {T0, ModelV(<<>>), DictV(<< <<kc, T0>> >>),
     DictV(<< <<kc, IntV(1)>> >>), IntV(1)}

ModelPaths == {ka, kb, DotJoin(ka, kb)}
ModelChains == {<<ka>>, <<ka, kb>>}

\* the pairs and the keyword arguments of Model(_data, **kwargs)
ModelData ==
    {<<>>, << <<ka, T0>> >>, << <<DotJoin(ka, kb), T0>> >>,
     << <<ka, T0>>, <<kb, IntV(1)>> >>}
ModelKwargs == {<<>>, << <<kc, T0>> >>, << <<kc, IntV(1)>> >>}

\* m = Model(data, **kwargs); m keeps its value when the constructor raises
ModelConstruct(data, kwargs) ==
    \E r \in {Model__init__(data, kwargs)} :
    /\ nops < MaxOps
    /\ m' = IF r.st = "ok" THEN r.obj ELSE m
    /\ last' = Op("Model", data, DictV(kwargs), r.st, NoneV, 0)
    /\ nops' = nops + 1
    /\ UNCHANGED <<s, calls, cs, chk, s2>>

\* m[p] = v
ModelSetItem(p, v) ==
    \E r \in {setitem(m, p, v)} :
    /\ nops < MaxOps
    /\ m' = r.obj
    /\ last' = Op("setitem", p, v, r.st, NoneV, 0)
    /\ nops' = nops + 1
    /\ UNCHANGED <<s, calls, cs, chk, s2>>

\* m.k1...kn = v
ModelSetAttr(names, v) ==
    \E r \in {setattr_chain(m, names, v)} :
    /\ nops < MaxOps
    /\ m' = r.obj
    /\ last' = Op("setattr", names, v, r.st, NoneV, 0)
    /\ nops' = nops + 1
    /\ UNCHANGED <<s, calls, cs, chk, s2>>

NextModel ==
    \/ \E d \in ModelData, kw \in ModelKwargs : ModelConstruct(d, kw)
    \/ \E p \in ModelPaths, v \in ModelValues : ModelSetItem(p, v)
    \/ \E names \in ModelChains, v \in ModelValues : ModelSetAttr(names, v)

InitModel ==
    /\ m = Model__init__(<<>>, <<>>).obj
    /\ s = Settings__init__(<<>>, "None").obj
    /\ calls = 0
    /\ cs = Settings__init__(<<>>, "None").obj
    /\ chk = NoCheck
    /\ s2 = SettingsV(<<>>, "None")
    /\ last = NoOp
    /\ nops = 0

SpecModel == InitModel /\ [][NextModel]_vars

-----------------------------------------------------------------------------
(* The program that checks a Settings against a Model                      *)

CheckValues == {IntV(1), StrV}

\* the item lists of at most n items with distinct keys
RECURSIVE ItemLists(_)
ItemLists(n) ==
    IF n = 0 THEN {<<>>}
    ELSE UNION { {l} \cup
                 (IF Len(l) = n - 1
                  THEN {Append(l, <<k, v>>) : k \in Keys, v \in CheckValues}
                  ELSE {})
                 : l \in ItemLists(n - 1) }

InitCheck ==
    /\ \E l \in {x \in ItemLists(MaxLen) :
                    \A i, j \in 1..Len(x) : x[i][1] = x[j][1] => i = j} :
          cs = Settings__init__(l, "None").obj
    /\ s = Settings__init__(<<>>, "None").obj
    /\ calls = 0
    /\ m = Model__init__(<<>>, <<>>).obj
    /\ chk = NoCheck
    /\ s2 = SettingsV(<<>>, "None")
    /\ last = NoOp
    /\ nops = 0

\* check_settings(cs, d)
CheckSettings(d) ==
    /\ chk' = [model |-> d, out |-> check_settings(cs, ModelOf(d))]
    /\ UNCHANGED <<s, calls, m, cs, s2, last, nops>>

NextCheck == \E d \in ModelNames : CheckSettings(d)

SpecCheck == InitCheck /\ [][NextCheck]_vars

-----------------------------------------------------------------------------
(* The program that applies conforms(m) and each_value_conforms(m)         *)

\* the item lists of at most MaxLen items with distinct keys
DistinctItemLists ==
    {x \in ItemLists(MaxLen) :
        \A i, j \in 1..Len(x) : x[i][1] = x[j][1] => i = j}

\* the values of a Settings of sub-configurations: a scalar and the Settings
\* of at most one item
SectionValues ==
    {IntV(1)} \cup
    {SettingsV(<<>>, "None")} \cup
    {SettingsV(<< <<k, v>> >>, "None") : k \in Keys, v \in CheckValues}

\* the values the predicates are applied to: scalars, a raw mapping, flat
\* Settings, and Settings of one or two sections
PredicateInputs ==
    {IntV(1), StrV, DictV(<< <<kb, IntV(1)>> >>)}
    \cup {SettingsV(l, "None") : l \in DistinctItemLists}
    \cup {SettingsV(<< <<ka, x>> >>, "None") : x \in SectionValues}
    \cup {SettingsV(<< <<ka, x>>, <<kb, y>> >>, "None") :
             x \in SectionValues, y \in SectionValues}

InitConforms ==
    /\ cs \in PredicateInputs
    /\ s = SettingsV(<<>>, "None")
    /\ calls = 0
    /\ m = ModelV(<<>>)
    /\ chk = NoCheck
    /\ s2 = SettingsV(<<>>, "None")
    /\ last = NoOp
    /\ nops = 0

\* conforms(d)(cs)
Conforms(d) ==
    /\ chk' = [model |-> d, pred |-> "conforms",
               out |-> Predicate__call__(ConformsV(d), cs)]
    /\ UNCHANGED <<s, calls, m, cs, s2, last, nops>>

\* each_value_conforms(d)(cs)
EachValueConforms(d) ==
    /\ chk' = [model |-> d, pred |-> "each_value_conforms",
               out |-> Predicate__call__(EachValueConformsV(d), cs)]
    /\ UNCHANGED <<s, calls, m, cs, s2, last, nops>>

NextConforms ==
    \/ \E d \in ModelNames : Conforms(d)
    \/ \E d \in ModelNames : EachValueConforms(d)

SpecConforms == InitConforms /\ [][NextConforms]_vars

-----------------------------------------------------------------------------
(* The program that parses external data and generates it back             *)

ParseModels == {"M0", "M2", "M3", "MN"}

\* the values of an external mapping: a number, a string and the mappings
\* of at most MaxLen items
ExternalValues ==
    CheckValues \cup {DictV(l) : l \in DistinctItemLists}

\* the external mappings: those of at most MaxLen leaves, and those that
\* hold under c a value or a section, alone, or before or after a leaf
ExternalData ==
    {DictV(l) : l \in DistinctItemLists}
    \cup {DictV(<< <<kc, x>> >>) : x \in ExternalValues}
    \cup {DictV(<< <<kc, x>>, <<k, v>> >>) :
             x \in ExternalValues, k \in {ka, kn}, v \in CheckValues}
    \cup {DictV(<< <<k, v>>, <<kc, x>> >>) :
             x \in ExternalValues, k \in {ka, kn}, v \in CheckValues}

\* what generate_settings is applied to besides parsed data: Settings with
\* and without a Model, and a number
GenerateInputs ==
    {SettingsV(l, b) : l \in DistinctItemLists, b \in {"None", "M2"}}
    \cup {IntV(1)}

InitParse ==
    /\ cs \in ExternalData \cup GenerateInputs
    /\ s = SettingsV(<<>>, "None")
    /\ calls = 0
    /\ m = ModelV(<<>>)
    /\ chk = NoCheck
    /\ s2 = SettingsV(<<>>, "None")
    /\ last = NoOp
    /\ nops = 0

\* parse_to_model(d, cs)
ParseToModel(d) ==
    /\ chk' = [model |-> d, op |-> "parse_to_model",
               out |-> parse_to_model(d, cs)]
    /\ UNCHANGED <<s, calls, m, cs, s2, last, nops>>

\* generate_settings(p) for the Settings p that parse_to_model returned
GenerateParsed ==
    /\ chk.model # "None" /\ chk.op = "parse_to_model" /\ chk.out.st = "ok"
    /\ chk' = [model |-> chk.model, op |-> "generate_parsed",
               parsed |-> chk.out.val,
               out |-> generate_settings(chk.out.val)]
    /\ UNCHANGED <<s, calls, m, cs, s2, last, nops>>

\* check_settings(p, d) for the Settings p that parse_to_model(d, cs)
\* returned
CheckParsed ==
    /\ chk.model # "None" /\ chk.op = "parse_to_model" /\ chk.out.st = "ok"
    /\ chk' = [model |-> chk.model, op |-> "check_parsed",
               parsed |-> chk.out.val,
               out |-> check_settings(chk.out.val, ModelOf(chk.model))]
    /\ UNCHANGED <<s, calls, m, cs, s2, last, nops>>

\* generate_settings(cs)
GenerateSettings ==
    /\ chk' = [model |-> "-", op |-> "generate_settings",
               out |-> generate_settings(cs)]
    /\ UNCHANGED <<s, calls, m, cs, s2, last, nops>>

NextParse ==
    \/ \E d \in ParseModels : ParseToModel(d)
    \/ GenerateParsed
    \/ CheckParsed
    \/ GenerateSettings

SpecParse == InitParse /\ [][NextParse]_vars

-----------------------------------------------------------------------------
(* Vocabulary of the properties                                            *)

IsGetItem(op, p) == op.op = "getitem" /\ op.key = p
IsGetAttr(op, names) == op.op = "getattr" /\ op.key = names
IsSetItem(op) == op.op = "setitem"
IsSetAttr(op) == op.op = "setattr"

\* an item get or an attribute read of the single key k
IsReadOf(op, k) == IsGetItem(op, k) \/ IsGetAttr(op, <<k>>)

\* the bound Model declares k with a callable default
HasCallableDefault(self, k) ==
    /\ model_has(self, k)
    /\ callable(default_of(Lookup(ModelOf(self.model).items, k)))

\* self holds exactly the items of old, and k with value v
StoredInto(old, self, k, v) ==
    /\ Has(self.items, k) /\ Lookup(self.items, k) = v
    /\ \A j \in 1..Len(old.items) :
          /\ Has(self.items, old.items[j][1])
          /\ old.items[j][1] # k
                => Lookup(self.items, old.items[j][1]) = old.items[j][2]
    /\ \A j \in 1..Len(self.items) :
          self.items[j][1] # k => Has(old.items, self.items[j][1])
    /\ self.model = old.model

-----------------------------------------------------------------------------
(* C1 - lazy default memoization                                           *)

\* C1 as stated: every read of n, the key with a callable default, returns
\* the value then stored under n, and over any sequence of reads the default
\* function is invoked at most once.
C1_InvokedAtMostOnce ==
    HasCallableDefault(s, kn) =>
        /\ calls <= 1
        /\ IsReadOf(last, kn) =>
              /\ last.st = "ok"
              /\ Has(s.items, kn) /\ Lookup(s.items, kn) = last.ret

\* C1 amended: a read of n while n is not stored invokes the default function
\* exactly once with s; if the function returns, its result (here s['b'] + 1)
\* is stored under n and returned; if it raises, nothing is stored.  A read of
\* n while n is stored returns the stored value, invokes nothing and leaves s
\* unchanged, and n stays stored.
C1_Memoized ==
    [][ /\ Has(s.items, kn) => Has(s'.items, kn)
        /\ (HasCallableDefault(s, kn) /\ IsReadOf(last', kn)) =>
              IF Has(s.items, kn)
              THEN /\ last'.st = "ok" /\ last'.ret = Lookup(s.items, kn)
                   /\ last'.inv = 0 /\ calls' = calls /\ s' = s
              ELSE /\ last'.inv = 1 /\ calls' = calls + 1
                   /\ IF last'.st = "ok"
                      THEN /\ last'.ret = IntV(Lookup(s.items, kb).val + 1)
                           /\ StoredInto(s, s', kn, last'.ret)
                      ELSE s' = s ]_vars

\* a read of n that returned the memoized value without invoking the default
\* function, after the one read that invoked it
C1_Witness ==
    /\ HasCallableDefault(s, kn) /\ IsReadOf(last, kn)
    /\ last.st = "ok" /\ last.inv = 0 /\ calls = 1
    /\ last.ret = IntV(2)

-----------------------------------------------------------------------------
(* C2 - dotted-path creation                                               *)

\* '.'.join(keys)
RECURSIVE Join(_)
Join(keys) ==
    IF Len(keys) = 1 THEN keys[1]
    ELSE DotJoin(keys[1], Join(Tail(keys)))

\* x == y as Python compares: mappings by their items (two Settings also by
\* the order of their keys), everything else by value
RECURSIVE py_eq(_, _)
py_eq(x, y) ==
    IF isinstance_dict(x) /\ isinstance_dict(y)
    THEN /\ Len(x.items) = Len(y.items)
         /\ \A i \in 1..Len(x.items) :
               /\ Has(y.items, x.items[i][1])
               /\ py_eq(x.items[i][2], Lookup(y.items, x.items[i][1]))
         /\ (isinstance_Settings(x) /\ isinstance_Settings(y))
               => KeysOf(x.items) = KeysOf(y.items)
    ELSE x = y

\* C2: after a successful s[p] = v with p = k1.k2...kn, s[p] == v, k1 is in
\* s and every proper prefix k1...ki of p resolves to a Settings; when s was
\* empty before, s holds only k1 and the Settings at each proper prefix holds
\* only the next segment of p.
C2_DottedPathCreation ==
    [][ (IsSetItem(last') /\ last'.st = "ok") =>
          LET keys == Split(last'.key)
              n == Len(keys)
              at(i) == Settings__getitem__(s', Join(SubSeq(keys, 1, i)))
          IN /\ at(n).st = "ok" /\ py_eq(at(n).val, last'.arg)
             /\ at(n).obj = s'
             /\ Has(s'.items, keys[1])
             /\ \A i \in 1..(n - 1) :
                   at(i).st = "ok" /\ isinstance_Settings(at(i).val)
             /\ s.items = <<>> =>
                   /\ KeysOf(s'.items) = <<keys[1]>>
                   /\ \A i \in 1..(n - 1) :
                         KeysOf(at(i).val.items) = <<keys[i + 1]>> ]_vars

\* s['a.b.c'] = 1 on an empty s
C2_Witness ==
    /\ IsSetItem(last) /\ last.st = "ok" /\ nops = 1
    /\ last.key = <<"a", ".", "b", ".", "c">> /\ last.arg = IntV(1)
    /\ s.items =
         << <<ka, SettingsV(<< <<kb, SettingsV(<< <<kc, IntV(1)>> >>,
                                               "None")>> >>, "None")>> >>

-----------------------------------------------------------------------------
(* C3 - writing through a value that is not a Settings                     *)

\* some non-final segment of keys exists in the store, reached through
\* Settings only, and its value is not a Settings
RECURSIVE Blocked(_, _)
Blocked(obj, keys) ==
    /\ Len(keys) > 1
    /\ isinstance_Settings(obj)
    /\ Has(obj.items, Head(keys))
    /\ LET c == Lookup(obj.items, Head(keys)) IN
       ~isinstance_Settings(c) \/ Blocked(c, Tail(keys))

\* C3: s[p] = v raises TypeError whenever a non-final segment of p exists and
\* is not a Settings, and leaves s as it was.
C3_SetThroughScalar ==
    [][ (IsSetItem(last') /\ Blocked(s, Split(last'.key))) =>
          (last'.st = "TypeError" /\ s' = s) ]_vars

\* a write through each kind of value has failed: here through a list
C3_Witness ==
    /\ IsSetItem(last) /\ last.st = "TypeError"
    /\ last.key = <<"a", ".", "b", ".", "c">>
    /\ Has(s.items, ka) /\ isinstance_Settings(Lookup(s.items, ka))
    /\ Has(Lookup(s.items, ka).items, kb)
    /\ Lookup(Lookup(s.items, ka).items, kb) = ListV

-----------------------------------------------------------------------------
(* C4 - reading through a value that is not a Settings                     *)

\* C4 as stated: s[p] raises KeyError if a non-final segment of p exists and
\* is not a Settings.
C4_GetThroughScalarKeyError ==
    [][ (last'.op = "getitem" /\ Blocked(s, Split(last'.key))) =>
          last'.st = "KeyError" ]_vars

\* C4 amended: s[p] raises TypeError if a non-final segment of p exists and
\* is not a Settings (and leaves s as it was).
C4_GetThroughScalar ==
    [][ (last'.op = "getitem" /\ Blocked(s, Split(last'.key))) =>
          (last'.st = "TypeError" /\ s' = s /\ calls' = calls) ]_vars

\* s['a.b'] with a string stored under a
C4_Witness ==
    /\ IsGetItem(last, <<"a", ".", "b">>) /\ last.st = "TypeError"
    /\ Has(s.items, ka) /\ Lookup(s.items, ka) = StrV

-----------------------------------------------------------------------------
(* C5 - item get of an absent key that has no default                      *)

IsKey(p) == Len(Split(p)) = 1

\* no Model is bound, or the bound Model does not declare k, or it declares
\* k with default None
Undefaultable(self, k) ==
    \/ self.model = "None"
    \/ ~Has(ModelOf(self.model).items, k)
    \/ LET entry == Lookup(ModelOf(self.model).items, k) IN
       isinstance_Type(entry) /\ entry.default = NoneV

\* C5: s[k] for a key k absent from s raises KeyError and leaves s unchanged
\* when no Model is bound, when the Model does not declare k and when the
\* Model declares k without a default.
C5_AbsentKeyError ==
    [][ (last'.op = "getitem" /\ IsKey(last'.key)
         /\ ~Has(s.items, last'.key) /\ Undefaultable(s, last'.key)) =>
          (last'.st = "KeyError" /\ s' = s /\ calls' = calls) ]_vars

\* s['b'] failed on a Settings bound to a Model that declares b without a
\* default
C5_Witness ==
    /\ IsGetItem(last, kb) /\ last.st = "KeyError"
    /\ ~Has(s.items, kb) /\ model_has(s, kb)
    /\ Lookup(ModelOf(s.model).items, kb).default = NoneV

-----------------------------------------------------------------------------
(* C6 - attribute reads that miss, without a Model                         *)

\* C6: on a Settings with no bound Model, an attribute read s.x.y... whose
\* first name x is absent returns a TemporaryEntry that is false as a boolean
\* and contains nothing, and leaves s unchanged.
C6_TemporaryEntryIsInert ==
    [][ (last'.op = "getattr" /\ s.model = "None"
         /\ ~Has(s.items, last'.key[1])) =>
          /\ last'.st = "ok"
          /\ last'.ret.kind = "TemporaryEntry"
          /\ last'.ret.key = Join(last'.key)
          /\ ~py_bool(last'.ret)
          /\ \A k \in Keys : ~py_contains(last'.ret, k)
          /\ s' = s ]_vars

\* s.a.b.c was read on a Settings without Model that does not hold a
C6_Witness ==
    /\ IsGetAttr(last, <<ka, kb, kc>>) /\ last.st = "ok"
    /\ last.ret.kind = "TemporaryEntry"
    /\ s.model = "None" /\ ~Has(s.items, ka) /\ s.items # <<>>

-----------------------------------------------------------------------------
(* C7 - attribute read of an absent key that has no default                *)

\* C7: s.k for a key k that is absent from s and cannot be defaulted (no
\* Model, k not declared, or k declared without default) returns a
\* TemporaryEntry instead of failing.
C7_AttrReadNeverFails ==
    [][ (last'.op = "getattr" /\ Len(last'.key) = 1
         /\ ~Has(s.items, last'.key[1])
         /\ Undefaultable(s, last'.key[1])) =>
          (last'.st = "ok" /\ last'.ret.kind = "TemporaryEntry") ]_vars

-----------------------------------------------------------------------------
(* C8 - chained attribute assignment                                       *)

\* C8: when s does not contain a, the statement s.a.b.c = v (at any depth)
\* leaves s in the state s['a.b.c'] = v leaves it in, with a in s and
\* s['a.b.c'] == v.
C8_ChainedAssignment ==
    [][ (IsSetAttr(last') /\ ~Has(s.items, last'.key[1])) =>
          LET p == Join(last'.key)
              w == Settings__setitem__(s, p, last'.arg)
              g == Settings__getitem__(s', p)
          IN /\ last'.st = w.st /\ s' = w.obj
             /\ Has(s'.items, last'.key[1])
             /\ g.st = "ok" /\ py_eq(g.val, last'.arg) ]_vars

-----------------------------------------------------------------------------
(* C9 - what a Model contains                                              *)

\* every value of the mapping and of its nested sections is a Type or a
\* Model
RECURSIVE ModelContent(_)
ModelContent(x) ==
    \A i \in 1..Len(x.items) :
        LET v == x.items[i][2] IN
        \/ isinstance_Type(v)
        \/ isinstance_Model(v) /\ ModelContent(v)

\* a Type, or a mapping all of whose values are insertable
RECURSIVE Insertable(_)
Insertable(v) ==
    \/ isinstance_Type(v)
    \/ /\ isinstance_dict(v)
       /\ \A i \in 1..Len(v.items) : Insertable(v.items[i][2])

\* C9: after every insertion into a Model (constructor, item assignment,
\* attribute assignment, chained attribute assignment) every value stored in
\* the Model and in its nested sections is a Type or a Model, and inserting
\* any other value raises and leaves the Model unchanged.
C9_ModelContent ==
    [][ /\ (last'.op \in {"setitem", "setattr"}) =>
              /\ ModelContent(m')
              /\ ~Insertable(last'.arg) =>
                    (last'.st = "TypeError" /\ m' = m)
        /\ (last'.op = "Model") =>
              /\ ModelContent(m')
              /\ ~(Insertable(DictV(last'.key)) /\ Insertable(last'.arg)) =>
                    (last'.st = "TypeError" /\ m' = m) ]_vars

-----------------------------------------------------------------------------
(* C10 - check_settings                                                    *)

\* the i-th item of cs is not accepted by the Model d: its key is not
\* declared, or its value does not pass the check of the entry
Rejected(d, i) ==
    LET k == cs.items[i][1]
        v == cs.items[i][2]
    IN \/ ~Has(d.items, k)
       \/ LET c == Lookup(d.items, k).check IN
          \/ c.kind # "Predicate"
          \/ c.name = "is_integer" /\ v.kind \notin {"int", "bool"}

\* C10: check_settings examines the items in insertion order and stops at
\* the first one that is rejected: with KeyError naming the key when the key
\* is not declared, with the type-check error naming key and value when the
\* value fails the check; it returns True only if no item is rejected.
C10_CheckFailFast ==
    chk.model # "None" =>
        LET d == ModelOf(chk.model)
            bad == {i \in 1..Len(cs.items) : Rejected(d, i)}
            out == chk.out
        IN IF bad = {}
           THEN /\ out.st = "ok" /\ out.ret = BoolV(TRUE)
                /\ out.examined = Len(cs.items)
           ELSE LET j == CHOOSE i \in bad : \A i2 \in bad : i <= i2
                    k == cs.items[j][1]
                IN /\ out.examined = j
                   /\ out.ret # BoolV(TRUE)
                   /\ IF ~Has(d.items, k)
                      THEN out.st = "KeyError" /\ out.key = k
                      ELSE /\ out.st = "TypeError"
                           /\ Lookup(d.items, k).check.kind = "Predicate"
                                 => /\ out.msg = "Type-check failed"
                                    /\ out.key = k
                                    /\ out.val = cs.items[j][2]

\* the first item fails its check, the second has an undeclared key, and the
\* call stopped at the first
C10_Witness ==
    /\ chk.model = "M1" /\ Len(cs.items) = 2
    /\ cs.items[1] = <<kb, StrV>> /\ cs.items[2][1] = kc
    /\ chk.out.st = "TypeError" /\ chk.out.key = kb /\ chk.out.val = StrV
    /\ chk.out.examined = 1

-----------------------------------------------------------------------------
(* C11 - conforms and each_value_conforms as total boolean tests           *)

\* x passes check_settings against the Model d: x is a mapping, every key is
\* declared and every value passes the check of its entry
Passes(x, d) ==
    /\ isinstance_dict(x)
    /\ check_settings(x, d).st = "ok"

\* C11: conforms(m)(v) and each_value_conforms(m)(v) return True or False for
\* every v and never raise; conforms(m)(v) is True iff v is a Settings that
\* passes check_settings against m; each_value_conforms(m)(v) is True iff v
\* is a Settings each of whose values passes check_settings against m.
C11_TotalPredicates ==
    chk.model # "None" =>
        /\ chk.out.st = "ok"
        /\ chk.out.val \in {BoolV(TRUE), BoolV(FALSE)}
        /\ chk.pred = "conforms" =>
              (chk.out.val = BoolV(TRUE)
                 <=> (is_settings(cs) /\ Passes(cs, ModelOf(chk.model))))
        /\ chk.pred = "each_value_conforms" =>
              (chk.out.val = BoolV(TRUE)
                 <=> (/\ is_settings(cs)
                      /\ \A i \in 1..Len(cs.items) :
                            Passes(cs.items[i][2], ModelOf(chk.model))))

-----------------------------------------------------------------------------
(* C12 - parse_to_model                                                    *)

IsParse == chk.model # "None" /\ chk.op = "parse_to_model"

\* the outcome of model[k].parser(v) for a key k the Model d declares
ParserOutcome(d, k, v) == call(attr_of(Lookup(d.items, k), "parser"), v)

\* some key of data is not declared in d, at the top level or inside a
\* section that d declares through a ModelType
RECURSIVE SomeKeyUndeclared(_, _)
SomeKeyUndeclared(d, data) ==
    \E i \in 1..Len(data.items) :
        LET k == data.items[i][1]
            v == data.items[i][2]
        IN \/ ~Has(d.items, k)
           \/ /\ isinstance_Type(Lookup(d.items, k))
              /\ Lookup(d.items, k).parser.name = "parse_to_model"
              /\ isinstance_dict(v)
              /\ SomeKeyUndeclared(ModelOf(Lookup(d.items, k).model), v)

\* p is a Settings bound to the Model named mname that holds the keys of
\* data, in data's order, each with model[key].parser(value)
ParsedFrom(p, mname, data) ==
    /\ p.kind = "Settings" /\ p.model = mname
    /\ KeysOf(p.items) = KeysOf(data.items)
    /\ \A i \in 1..Len(data.items) :
          LET c == ParserOutcome(ModelOf(mname), data.items[i][1],
                                 data.items[i][2])
          IN c.st = "ok" /\ py_eq(p.items[i][2], c.val)

\* C12 as stated: parse_to_model(model, data) raises KeyError whenever some
\* key of data is not declared (at the top level or in a section parsed
\* through a ModelType), and returns the parsed Settings whenever every key
\* is declared.
C12_UndeclaredKeyError ==
    (IsParse /\ isinstance_dict(cs)) =>
        IF SomeKeyUndeclared(ModelOf(chk.model), cs)
        THEN chk.out.st = "KeyError"
        ELSE chk.out.st = "ok" /\ ParsedFrom(chk.out.val, chk.model, cs)

\* the items of data at which parse_to_model stops: the key is not
\* declared, or the parser of its entry raises
Stops(d, data) ==
    {i \in 1..Len(data.items) :
        \/ ~Has(d.items, data.items[i][1])
        \/ ParserOutcome(d, data.items[i][1], data.items[i][2]).st # "ok"}

\* C12 amended: parse_to_model handles the items of data in order and stops
\* at the first whose key is not declared, with KeyError, or whose parser
\* raises, with the exception of the parser (the parser of a ModelType
\* raises what parse_to_model on the section raises, an entry that is a
\* nested Model has no parser and raises TypeError); when no item stops it,
\* it returns a new Settings bound to model that holds exactly the keys of
\* data, in data's order, each mapped to model[key].parser(value).
C12_ParseToModel ==
    (IsParse /\ isinstance_dict(cs)) =>
        LET d == ModelOf(chk.model)
            stops == Stops(d, cs)
        IN IF stops = {}
           THEN chk.out.st = "ok" /\ ParsedFrom(chk.out.val, chk.model, cs)
           ELSE LET j == CHOOSE i \in stops : \A i2 \in stops : i <= i2
                    k == cs.items[j][1]
                IN IF ~Has(d.items, k) THEN chk.out.st = "KeyError"
                   ELSE chk.out.st =
                           ParserOutcome(d, k, cs.items[j][2]).st

\* {'c': {'b': 1}, 'n': 1} parsed against M3, which does not declare n
C12_Witness ==
    /\ IsParse /\ chk.model = "M3"
    /\ cs = DictV(<< <<kc, DictV(<< <<kb, IntV(1)>> >>)>>,
                     <<kn, IntV(1)>> >>)
    /\ chk.out.st = "KeyError"

-----------------------------------------------------------------------------
(* C13 - nested model composition                                          *)

\* every item of x has a key that d declares and an integer value, which is
\* what the checks of M2 and of the leaf a of M3 ask for
AllIntegers(x, d) ==
    \A i \in 1..Len(x.items) :
        /\ Has(d.items, x.items[i][1])
        /\ x.items[i][2].kind \in {"int", "bool"}

\* p without its section c
Leaves(p) ==
    [p EXCEPT !.items = SelectSeq(p.items, LAMBDA it : it[1] # kc)]

\* C13: with M3 declaring c as ModelType(M2), the Settings p that
\* parse_to_model(M3, {'c': d2, ...}) returns holds under c a Settings bound
\* to M2, and check_settings(p, M3) recurses into it: it does not succeed
\* when some value of the section violates M2, and it succeeds when every
\* value of the section satisfies M2 (and the leaves of p satisfy M3).
C13_NestedComposition ==
    (/\ chk.model = "M3" /\ chk.op = "check_parsed"
     /\ Has(chk.parsed.items, kc)) =>
        LET section == Lookup(chk.parsed.items, kc) IN
        /\ section.kind = "Settings" /\ section.model = "M2"
        /\ ~AllIntegers(section, M2) => chk.out.st # "ok"
        /\ (AllIntegers(section, M2) /\ AllIntegers(Leaves(chk.parsed), M3))
              => (chk.out.st = "ok" /\ chk.out.ret = BoolV(TRUE))

\* {'c': {'a': 'x'}} parsed through M3 and then checked: the check of the
\* section fails
C13_Witness ==
    /\ chk.model = "M3" /\ chk.op = "check_parsed"
    /\ cs = DictV(<< <<kc, DictV(<< <<ka, StrV>> >>)>> >>)
    /\ chk.parsed.items = << <<kc, SettingsV(<< <<ka, StrV>> >>, "M2")>> >>
    /\ chk.out.st = "TypeError"

-----------------------------------------------------------------------------
(* C14 - round trip of parse_to_model and generate_settings                *)

\* x and y are the same leaf, or mappings with the same keys in the same
\* order and equivalent values
RECURSIVE Equivalent(_, _)
Equivalent(x, y) ==
    IF isinstance_dict(x)
    THEN /\ isinstance_dict(y) \/ y.kind = "CommentedMap"
         /\ KeysOf(x.items) = KeysOf(y.items)
         /\ \A i \in 1..Len(x.items) :
               Equivalent(x.items[i][2], y.items[i][2])
    ELSE x = y

\* C14: when parse_to_model(m, d) returns (every key of d is declared; the
\* generators of the schemas invert their parsers), generate_settings of the
\* result returns a mapping with the keys of d, in d's order, and equivalent
\* values, inside the sections declared through ModelType too.
C14_RoundTrip ==
    (chk.model # "None" /\ chk.op = "generate_parsed") =>
        /\ chk.out.st = "ok"
        /\ chk.out.val.kind = "CommentedMap"
        /\ Equivalent(cs, chk.out.val)

\* {'a': 1, 'c': {'b': 1, 'a': 'x'}} through M3: b is parsed to 2 and
\* generated back to 1
C14_Witness ==
    /\ chk.model = "M3" /\ chk.op = "generate_parsed"
    /\ cs = DictV(<< <<ka, IntV(1)>>,
                     <<kc, DictV(<< <<kb, IntV(1)>>, <<ka, StrV>> >>)>> >>)
    /\ Lookup(Lookup(chk.parsed.items, kc).items, kb) = IntV(2)
    /\ chk.out.val =
          CommentedMap(<< <<ka, IntV(1)>>,
                          <<kc, CommentedMap(<< <<kb, IntV(1)>>,
                                                <<ka, StrV>> >>)>> >>)

-----------------------------------------------------------------------------
(* C15 - generate_settings with and without a Model                        *)

\* the outcome of model[k].generator(v) for the i-th item of cs
GeneratorOutcome(i) ==
    call(attr_of(Lookup(ModelOf(cs.model).items, cs.items[i][1]),
                 "generator"),
         cs.items[i][2])

\* C15: generate_settings(settings) maps every key to
\* model[key].generator(value) when settings has a bound Model (that
\* declares its keys, the generators returning), and when settings has no
\* bound Model it maps every key to str(value) instead of failing.
C15_GenerateFallback ==
    (chk.model # "None" /\ chk.op = "generate_settings"
     /\ isinstance_Settings(cs)) =>
        IF cs.model = "None"
        THEN /\ chk.out.st = "ok"
             /\ chk.out.val = CommentedMap(str_items(cs.items))
        ELSE (\A i \in 1..Len(cs.items) :
                 /\ Has(ModelOf(cs.model).items, cs.items[i][1])
                 /\ GeneratorOutcome(i).st = "ok") =>
                 /\ chk.out.st = "ok"
                 /\ KeysOf(chk.out.val.items) = KeysOf(cs.items)
                 /\ \A i \in 1..Len(cs.items) :
                       chk.out.val.items[i][2] = GeneratorOutcome(i).val

-----------------------------------------------------------------------------
(* C16 - obligatory keys                                                   *)

\* the bound Model declares k with a Type that is obligatory
Obligatory(self, k) ==
    /\ model_has(self, k)
    /\ isinstance_Type(model_entry(self, k))
    /\ model_entry(self, k).obligatory

\* C16: a read (item get or attribute read) of a key that is absent from s
\* and obligatory in the bound Model fails and stores nothing, whatever the
\* default of its Type is.
C16_ObligatoryNeverDefaulted ==
    [][ \A k \in Keys :
          (IsReadOf(last', k) /\ ~Has(s.items, k) /\ Obligatory(s, k)) =>
              (last'.st # "ok" /\ s' = s) ]_vars

-----------------------------------------------------------------------------
(* C17 - a TemporaryEntry is never stored                                  *)

\* no value stored in x or below it is a TemporaryEntry
RECURSIVE NoTemporaryEntry(_)
NoTemporaryEntry(x) ==
    \A i \in 1..Len(x.items) :
        /\ x.items[i][2].kind # "TemporaryEntry"
        /\ isinstance_dict(x.items[i][2]) => NoTemporaryEntry(x.items[i][2])

\* C17: after any sequence of item gets, attribute reads, default
\* resolutions and writes on a Settings bound to a Model, no value stored
\* in the Settings is a TemporaryEntry.
C17_NoTemporaryEntryStored == NoTemporaryEntry(s)

-----------------------------------------------------------------------------
(* C18 - the bound Model is read-only                                      *)

\* C18: no sequence of reads, default resolutions and writes on the Settings
\* bound to a Model changes the Model or the defaults it declares: the Model
\* stays as it was constructed, so that s2 reads the defaults as declared
\* whatever s has read and written before.
C18_ModelReadOnly == m = MS

====
